---------------------------- MODULE Spec2Model ----------------------------
(***************************************************************************)
(* The mayhem-mandrill producer/consumer pipeline.                         *)
(*                                                                         *)
(* Three programs of the repository are modelled, Init choosing which      *)
(* main() runs:                                                            *)
(*   "mayhem"   src/mayhem_mandrill/mayhem.py    (asyncio, unbounded,      *)
(*              one handler task per message: gather(save, restart_host)   *)
(*              with the done callback cleanup)                            *)
(*   "mayhem_4" src/mayhem_mandrill/mayhem_4.py  (asyncio, publish(q, n)   *)
(*              followed by the sentinel None)                             *)
(*   "mayhem_1" src/mayhem_mandrill/part_1/mayhem_1.py (synchronous)       *)
(*                                                                         *)
(* The asyncio programs run on one event loop: `ready` is the loop's FIFO  *)
(* of runnable handles, `current` the handle being executed (a coroutine   *)
(* runs without interruption up to its next real suspension point) and     *)
(* `sleeping` the handles parked on an asyncio.sleep timer, which expire   *)
(* in any order since every delay is random.random().                      *)
(***************************************************************************)
EXTENDS Integers, Sequences, FiniteSets, TLC

\* Bounds of the model.
MaxMsgs == 2
MaxN == 4
MaxConsumers == 2
MaxCap == 2

\* The termination sentinel put by publish(queue, n); message ids are 1..n.
None == 0

Msgs == 1..MaxMsgs
Consumers == 1..MaxConsumers

\* No handle is being executed: the loop is between two callbacks.
NoHandle == <<"idle", 0>>
PublishHandle == <<"publish", 0>>

VARIABLES
    program,    \* which main() runs: "mayhem", "mayhem_4" or "mayhem_1"
    mainPc,     \* position of main()
    ready,      \* event loop: FIFO of runnable handles <<kind, id>>
    current,    \* event loop: the handle being executed, or NoHandle
    sleeping,   \* event loop: handles parked on an asyncio.sleep timer
    queue,      \* the work queue's items, head first
    getters,    \* asyncio.Queue: consumers suspended in get(), FIFO
    maxsize,    \* asyncio.Queue: its capacity, 0 for none (asyncio.Queue())
    putters,    \* asyncio.Queue: handles suspended in put(), FIFO
    n,          \* publish(queue, n): the count
    x,          \* publish(queue, n): the loop variable
    nextId,     \* mayhem.py publish: number of messages generated so far
    pubPc,      \* publish: "run" or "done"
    consPc,     \* per consumer loop: "get", "waiting", "sleep", "stopped"
    msg,        \* per consumer loop: its local variable msg (None at start)
    enqueued,   \* history: every item put on the queue, in order
    consumed,   \* history: every message logged 'Consumed', in order
    hmPc,       \* per message: handle_message task
    hmCount,    \* per message: number of handle_message tasks created for it
    savePc,     \* per message: save task
    restartPc,  \* per message: restart_host task
    nfinished,  \* per message: gather's count of finished children
    outer,      \* per message: gather's future: "pending", "result", "exception"
    firstDone,  \* per message: the child gather saw finish first
    cleanups,   \* per message: number of calls of cleanup
    restarted,  \* per message: PubSubMessage.restarted
    saved,      \* per message: PubSubMessage.saved
    acked       \* per message: PubSubMessage.acked

loopVars == <<ready, current, sleeping>>
queueVars == <<queue, getters>>
capVars == <<maxsize, putters>>
pubVars == <<n, x, nextId, pubPc>>
consVars == <<consPc, msg>>
histVars == <<enqueued, consumed>>
gatherVars == <<nfinished, outer, firstDone>>
taskVars == <<hmPc, hmCount, savePc, restartPc>>
fieldVars == <<restarted, saved, acked>>
vars == <<program, mainPc, loopVars, queueVars, capVars, pubVars, consVars, histVars,
          gatherVars, taskVars, cleanups, fieldVars>>

(***************************************************************************)
(* Helpers: the queue and the event loop.                                  *)
(***************************************************************************)

\* A loop that runs the newest handle first.
CallSoonFront(r, h) == <<h>> \o r

\* loop.call_soon / create_task: the handle goes to the tail of the FIFO.
CallSoon(r, h) == Append(r, h)

\* Queue._put: insert at the tail.
QueuePut(q, item) == Append(q, item)

\* A get that reads the head and leaves it on the queue.
QueueRestPeek(q) == q

\* Queue._get: the head, and the queue without it.
QueueHead(q) == Head(q)
QueueRest(q) == Tail(q)

\* Queue._wakeup_next(self._getters) after a put: the first suspended
\* consumer is resumed (its wakeup is scheduled on the loop).
WakeGetterReady(r, g) == IF g = <<>> THEN r ELSE CallSoon(r, <<"consume", Head(g)>>)
WakeGetterRest(g) == IF g = <<>> THEN g ELSE Tail(g)

\* A queue that never reports itself full.
QueueNeverFull(q, k) == FALSE

\* Queue.full(): a capacity of 0 is no capacity.
QueueFull(q, k) == k > 0 /\ Len(q) >= k

\* Queue._wakeup_next(self._putters) after a get: the first suspended put
\* is resumed.
WakePutterReady(r, p) == IF p = <<>> THEN r ELSE CallSoon(r, Head(p))
WakePutterRest(p) == IF p = <<>> THEN p ELSE Tail(p)

Range(s) == {s[i] : i \in 1..Len(s)}

\* <<1, 2, ..., k>>
Iota(k) == [i \in 1..k |-> i]

IsPrefix(s, t) == Len(s) <= Len(t) /\ \A i \in 1..Len(s) : s[i] = t[i]


(***************************************************************************)
(* Initial states: the state main() has built when it enters               *)
(* loop.run_forever() (asyncio) or calls publish (mayhem_1.py).            *)
(***************************************************************************)

\* The per-message state of mayhem.py before any message exists.
NoMessages ==
    /\ nextId = 0
    /\ hmPc = [m \in Msgs |-> "none"]
    /\ hmCount = [m \in Msgs |-> 0]
    /\ savePc = [m \in Msgs |-> "none"]
    /\ restartPc = [m \in Msgs |-> "none"]
    /\ nfinished = [m \in Msgs |-> 0]
    /\ outer = [m \in Msgs |-> "pending"]
    /\ firstDone = [m \in Msgs |-> "none"]
    /\ cleanups = [m \in Msgs |-> 0]
    /\ restarted = [m \in Msgs |-> FALSE]
    /\ saved = [m \in Msgs |-> FALSE]
    /\ acked = [m \in Msgs |-> FALSE]

EmptyQueue ==
    /\ queue = <<>>
    /\ getters = <<>>
    /\ putters = <<>>
    /\ enqueued = <<>>
    /\ consumed = <<>>

\* The consume tasks main() created, in creation order.
ConsumeHandles(k) == [c \in 1..k |-> <<"consume", c>>]

\* mayhem.py main(): queue, create_task(publish), k times create_task(consume)
\* (k = 1 in the source), run_forever.
StartMayhem(k) ==
    /\ program = "mayhem"
    /\ mainPc = "run_forever"
    /\ ready = <<PublishHandle>> \o ConsumeHandles(k)
    /\ current = NoHandle
    /\ sleeping = {}
    /\ EmptyQueue
    /\ n = 0
    /\ x = 0
    /\ pubPc = "run"
    /\ consPc = [c \in 1..k |-> "get"]
    /\ msg = [c \in 1..k |-> None]
    /\ NoMessages

\* mayhem_4.py main(): create_task(publish(queue, n)), k times
\* create_task(consume(queue)) (k = 1 in the source), run_forever.
StartMayhem4(k) ==
    /\ program = "mayhem_4"
    /\ mainPc = "run_forever"
    /\ ready = <<PublishHandle>> \o ConsumeHandles(k)
    /\ current = NoHandle
    /\ sleeping = {}
    /\ EmptyQueue
    /\ n \in 0..MaxN
    /\ x = 1
    /\ pubPc = "run"
    /\ consPc = [c \in 1..k |-> "get"]
    /\ msg = [c \in 1..k |-> None]
    /\ NoMessages

\* The queues of the source have no capacity: asyncio.Queue().
InitMayhem(k) == StartMayhem(k) /\ maxsize = 0

InitMayhem4(k) == StartMayhem4(k) /\ maxsize = 0

\* mayhem_1.py main(): line = queue.Queue(), about to call publish(line, n).
InitMayhem1 ==
    /\ maxsize = 0
    /\ program = "mayhem_1"
    /\ mainPc = "publish"
    /\ ready = <<>>
    /\ current = NoHandle
    /\ sleeping = {}
    /\ EmptyQueue
    /\ n \in 0..MaxN
    /\ x = 1
    /\ pubPc = "run"
    /\ consPc = [c \in 1..1 |-> "get"]
    /\ msg = [c \in 1..1 |-> None]
    /\ NoMessages

(***************************************************************************)
(* The event loop (loop.run_forever).                                      *)
(***************************************************************************)

\* The loop takes the next runnable handle and runs it.
RunNext ==
    /\ mainPc = "run_forever"
    /\ current = NoHandle
    /\ ready # <<>>
    /\ current' = Head(ready)
    /\ ready' = Tail(ready)
    /\ UNCHANGED <<program, capVars, mainPc, sleeping, queueVars, pubVars, consVars,
                   histVars, gatherVars, taskVars, cleanups, fieldVars>>

\* An asyncio.sleep(random.random()) timer expires: the sleeping coroutine
\* becomes runnable.  The loop looks at its timers between two callbacks.
\* publish of mayhem.py is observed for MaxMsgs messages only.
TimerFires(h) ==
    /\ mainPc = "run_forever"
    /\ current = NoHandle
    /\ h \in sleeping
    /\ h = PublishHandle => nextId < MaxMsgs
    /\ sleeping' = sleeping \ {h}
    /\ ready' = CallSoon(ready, h)
    /\ UNCHANGED <<program, capVars, mainPc, current, queueVars, pubVars, consVars,
                   histVars, gatherVars, taskVars, cleanups, fieldVars>>

(***************************************************************************)
(* mayhem.py                                                               *)
(***************************************************************************)

\* A publish whose messages are born acknowledged
\* (PubSubMessage.acked defaulting to True).
PublishAcked ==
    /\ program = "mayhem"
    /\ current = PublishHandle
    /\ nextId < MaxMsgs
    /\ nextId' = nextId + 1
    /\ acked' = [acked EXCEPT ![nextId + 1] = TRUE]
    /\ ready' = CallSoon(ready, <<"put", nextId + 1>>)
    /\ sleeping' = sleeping \cup {PublishHandle}
    /\ current' = NoHandle
    /\ UNCHANGED <<program, capVars, mainPc, queueVars, n, x, pubPc, consVars,
                   histVars, gatherVars, taskVars, cleanups, restarted, saved>>

\* publish, one iteration of `while True`: a new message, the put handed to
\* a task of its own (fire and forget), then asyncio.sleep.
Publish ==
    /\ program = "mayhem"
    /\ current = PublishHandle
    /\ nextId < MaxMsgs
    /\ nextId' = nextId + 1
    /\ ready' = CallSoon(ready, <<"put", nextId + 1>>)
    /\ sleeping' = sleeping \cup {PublishHandle}
    /\ current' = NoHandle
    /\ UNCHANGED <<program, capVars, mainPc, queueVars, n, x, pubPc, consVars,
                   histVars, gatherVars, taskVars, cleanups, fieldVars>>

\* A put that inserts the item without waking a waiting getter.
PutNoWake(m) ==
    /\ program = "mayhem"
    /\ current = <<"put", m>>
    /\ ~QueueFull(queue, maxsize)
    /\ queue' = QueuePut(queue, m)
    /\ enqueued' = Append(enqueued, m)
    /\ current' = NoHandle
    /\ UNCHANGED <<program, capVars, mainPc, ready, sleeping, getters,
                   pubVars, consVars, consumed, gatherVars, taskVars,
                   cleanups, fieldVars>>

\* The task of queue.put(msg) on a queue with room (always, for
\* asyncio.Queue()): put_nowait appends and wakes the first suspended getter.
Put(m) ==
    /\ program = "mayhem"
    /\ current = <<"put", m>>
    /\ ~QueueFull(queue, maxsize)
    /\ queue' = QueuePut(queue, m)
    /\ enqueued' = Append(enqueued, m)
    /\ ready' = WakeGetterReady(ready, getters)
    /\ getters' = WakeGetterRest(getters)
    /\ current' = NoHandle
    /\ UNCHANGED <<program, capVars, mainPc, sleeping, pubVars, consVars, consumed,
                   gatherVars, taskVars, cleanups, fieldVars>>

\* consume (mayhem.py and mayhem_4.py alike), `msg = await queue.get()` on
\* an empty queue: the loop suspends among the queue's getters; once woken
\* it tests the queue again.
ConsumeWait(c) ==
    /\ program \in {"mayhem", "mayhem_4"}
    /\ current = <<"consume", c>>
    /\ queue = <<>>
    /\ getters' = Append(getters, c)
    /\ consPc' = [consPc EXCEPT ![c] = "waiting"]
    /\ current' = NoHandle
    /\ UNCHANGED <<program, capVars, mainPc, ready, sleeping, queue, pubVars, msg,
                   histVars, gatherVars, taskVars, cleanups, fieldVars>>

\* A consume that awaits the handler (`await handle_message(msg)`) instead
\* of handing it to a task: the loop is suspended until the handler is done.
ConsumeGetAwaits(c) ==
    /\ program = "mayhem"
    /\ current = <<"consume", c>>
    /\ queue # <<>>
    /\ LET item == QueueHead(queue) IN
        /\ queue' = QueueRest(queue)
        /\ msg' = [msg EXCEPT ![c] = item]
        /\ consumed' = Append(consumed, item)
        /\ ready' = CallSoon(ready, <<"handle", item>>)
        /\ hmPc' = [hmPc EXCEPT ![item] = "start"]
        /\ hmCount' = [hmCount EXCEPT ![item] = @ + 1]
    /\ consPc' = [consPc EXCEPT ![c] = "await_handler"]
    /\ current' = NoHandle
    /\ UNCHANGED <<program, capVars, mainPc, sleeping, getters, pubVars,
                   enqueued, gatherVars, savePc, restartPc, cleanups,
                   fieldVars>>

\* consume, one iteration on a non-empty queue: get returns the head at
\* once, the message is logged and handed to a new handle_message task, and
\* the loop goes on to its next get without suspending.
ConsumeGet(c) ==
    /\ program = "mayhem"
    /\ current = <<"consume", c>>
    /\ queue # <<>>
    /\ LET item == QueueHead(queue) IN
        /\ queue' = QueueRest(queue)
        /\ msg' = [msg EXCEPT ![c] = item]
        /\ consumed' = Append(consumed, item)
        /\ ready' = CallSoon(WakePutterReady(ready, putters),
                             <<"handle", item>>)
        /\ hmPc' = [hmPc EXCEPT ![item] = "start"]
        /\ hmCount' = [hmCount EXCEPT ![item] = @ + 1]
    /\ putters' = WakePutterRest(putters)
    /\ consPc' = [consPc EXCEPT ![c] = "get"]
    /\ UNCHANGED <<program, maxsize, mainPc, current, sleeping, getters,
                   pubVars, enqueued, gatherVars, savePc, restartPc, cleanups,
                   fieldVars>>

\* handle_message up to `await g_future`: gather wraps save(msg) and
\* restart_host(msg) in tasks, in that order; cleanup is added as the
\* future's done callback before the task adds its own wakeup.
HandleStart(m) ==
    /\ program = "mayhem"
    /\ current = <<"handle", m>>
    /\ hmPc[m] = "start"
    /\ ready' = CallSoon(CallSoon(ready, <<"save", m>>), <<"restart", m>>)
    /\ savePc' = [savePc EXCEPT ![m] = "start"]
    /\ restartPc' = [restartPc EXCEPT ![m] = "start"]
    /\ hmPc' = [hmPc EXCEPT ![m] = "await"]
    /\ current' = NoHandle
    /\ UNCHANGED <<program, capVars, mainPc, sleeping, queueVars, pubVars, consVars,
                   histVars, gatherVars, hmCount, cleanups, fieldVars>>

\* save up to its asyncio.sleep.
SaveStart(m) ==
    /\ program = "mayhem"
    /\ current = <<"save", m>>
    /\ savePc[m] = "start"
    /\ savePc' = [savePc EXCEPT ![m] = "sleep"]
    /\ sleeping' = sleeping \cup {<<"save", m>>}
    /\ current' = NoHandle
    /\ UNCHANGED <<program, capVars, mainPc, ready, queueVars, pubVars, consVars,
                   histVars, gatherVars, hmPc, hmCount, restartPc, cleanups,
                   fieldVars>>

\* save after its sleep: msg.saved = True; the task is done and gather's
\* callback for this child is scheduled.
SaveFinish(m) ==
    /\ program = "mayhem"
    /\ current = <<"save", m>>
    /\ savePc[m] = "sleep"
    /\ saved' = [saved EXCEPT ![m] = TRUE]
    /\ savePc' = [savePc EXCEPT ![m] = "done"]
    /\ ready' = CallSoon(ready, <<"gather_save", m>>)
    /\ current' = NoHandle
    /\ UNCHANGED <<program, capVars, mainPc, sleeping, queueVars, pubVars, consVars,
                   histVars, gatherVars, hmPc, hmCount, restartPc, cleanups,
                   restarted, acked>>

\* restart_host up to its asyncio.sleep.
RestartStart(m) ==
    /\ program = "mayhem"
    /\ current = <<"restart", m>>
    /\ restartPc[m] = "start"
    /\ restartPc' = [restartPc EXCEPT ![m] = "sleep"]
    /\ sleeping' = sleeping \cup {<<"restart", m>>}
    /\ current' = NoHandle
    /\ UNCHANGED <<program, capVars, mainPc, ready, queueVars, pubVars, consVars,
                   histVars, gatherVars, hmPc, hmCount, savePc, cleanups,
                   fieldVars>>

\* A restart_host that marks only a message that is already saved (the two
\* sub-operations sequenced, save first).
RestartFinishAfterSave(m) ==
    /\ program = "mayhem"
    /\ current = <<"restart", m>>
    /\ restartPc[m] = "sleep"
    /\ restarted' = [restarted EXCEPT ![m] = saved[m]]
    /\ restartPc' = [restartPc EXCEPT ![m] = "done"]
    /\ ready' = CallSoon(ready, <<"gather_restart", m>>)
    /\ current' = NoHandle
    /\ UNCHANGED <<program, capVars, mainPc, sleeping, queueVars, pubVars,
                   consVars, histVars, gatherVars, hmPc, hmCount, savePc,
                   cleanups, saved, acked>>

\* restart_host after its sleep: msg.restarted = True.
RestartFinish(m) ==
    /\ program = "mayhem"
    /\ current = <<"restart", m>>
    /\ restartPc[m] = "sleep"
    /\ restarted' = [restarted EXCEPT ![m] = TRUE]
    /\ restartPc' = [restartPc EXCEPT ![m] = "done"]
    /\ ready' = CallSoon(ready, <<"gather_restart", m>>)
    /\ current' = NoHandle
    /\ UNCHANGED <<program, capVars, mainPc, sleeping, queueVars, pubVars, consVars,
                   histVars, gatherVars, hmPc, hmCount, savePc, cleanups,
                   saved, acked>>

\* cleanup registered twice on g_future.
OuterCallbacksTwice(r, m) ==
    CallSoon(CallSoon(CallSoon(r, <<"cleanup", m>>), <<"cleanup", m>>), <<"handle", m>>)

\* The callbacks of g_future, scheduled when it becomes done, in the order
\* they were added: cleanup (add_done_callback), then the wakeup of the
\* handle_message task that awaits it.
OuterCallbacks(r, m) == CallSoon(CallSoon(r, <<"cleanup", m>>), <<"handle", m>>)

\* A gather that completes with its first finished child (the join taken
\* for asyncio.wait(..., return_when=FIRST_COMPLETED)).
GatherFirstChildDone(m, child, childPc) ==
    /\ program = "mayhem"
    /\ current = <<"gather_" \o child, m>>
    /\ nfinished' = [nfinished EXCEPT ![m] = @ + 1]
    /\ firstDone' = [firstDone EXCEPT ![m] = IF @ = "none" THEN child ELSE @]
    /\ IF outer[m] # "pending"
       THEN UNCHANGED <<outer, ready>>
       ELSE /\ outer' = [outer EXCEPT ![m] = IF childPc = "failed" THEN "exception" ELSE "result"]
            /\ ready' = CallSoon(CallSoon(ready, <<"cleanup", m>>), <<"handle", m>>)
    /\ current' = NoHandle
    /\ UNCHANGED <<program, capVars, mainPc, sleeping, queueVars, pubVars, consVars,
                   histVars, taskVars, cleanups, fieldVars>>

\* gather's callback for a finished child (child is "save" or "restart",
\* childPc its final state): a done future is left alone; the first failed
\* child makes the future done with that exception (return_exceptions is
\* False); the last finished child makes it done with the results.
GatherChildDone(m, child, childPc) ==
    /\ program = "mayhem"
    /\ current = <<"gather_" \o child, m>>
    /\ nfinished' = [nfinished EXCEPT ![m] = @ + 1]
    /\ firstDone' = [firstDone EXCEPT ![m] = IF @ = "none" THEN child ELSE @]
    /\ IF outer[m] # "pending"
       THEN UNCHANGED <<outer, ready>>
       ELSE IF childPc = "failed"
       THEN /\ outer' = [outer EXCEPT ![m] = "exception"]
            /\ ready' = OuterCallbacks(ready, m)
       ELSE IF nfinished[m] + 1 = 2
       THEN /\ outer' = [outer EXCEPT ![m] = "result"]
            /\ ready' = OuterCallbacks(ready, m)
       ELSE UNCHANGED <<outer, ready>>
    /\ current' = NoHandle
    /\ UNCHANGED <<program, capVars, mainPc, sleeping, queueVars, pubVars, consVars,
                   histVars, taskVars, cleanups, fieldVars>>

GatherSaveDone(m) == GatherChildDone(m, "save", savePc[m])

GatherRestartDone(m) == GatherChildDone(m, "restart", restartPc[m])

\* A cleanup that clears the sub-operation flags of the message it acks.
CleanupResets(m) ==
    /\ program = "mayhem"
    /\ current = <<"cleanup", m>>
    /\ acked' = [acked EXCEPT ![m] = TRUE]
    /\ restarted' = [restarted EXCEPT ![m] = FALSE]
    /\ cleanups' = [cleanups EXCEPT ![m] = @ + 1]
    /\ current' = NoHandle
    /\ UNCHANGED <<program, capVars, mainPc, ready, sleeping, queueVars,
                   pubVars, consVars, histVars, gatherVars, taskVars, saved>>

\* cleanup(msg, fut): msg.acked = True, whatever fut holds.
Cleanup(m) ==
    /\ program = "mayhem"
    /\ current = <<"cleanup", m>>
    /\ acked' = [acked EXCEPT ![m] = TRUE]
    /\ cleanups' = [cleanups EXCEPT ![m] = @ + 1]
    /\ current' = NoHandle
    /\ UNCHANGED <<program, capVars, mainPc, ready, sleeping, queueVars, pubVars,
                   consVars, histVars, gatherVars, taskVars, restarted, saved>>

\* A handler whose exception is not kept in its task but leaves the event
\* loop, which stops.
HandleResumePropagates(m) ==
    /\ program = "mayhem"
    /\ current = <<"handle", m>>
    /\ hmPc[m] = "await"
    /\ hmPc' = [hmPc EXCEPT ![m] = IF outer[m] = "result" THEN "done" ELSE "failed"]
    /\ mainPc' = IF outer[m] = "result" THEN mainPc ELSE "crashed"
    /\ current' = NoHandle
    /\ UNCHANGED <<program, capVars, ready, sleeping, queueVars, pubVars,
                   consVars, histVars, gatherVars, hmCount, savePc, restartPc,
                   cleanups, fieldVars>>

\* handle_message resumes from `await g_future`: it returns, or the
\* exception of g_future ends the task (nobody awaits that task).
HandleResume(m) ==
    /\ program = "mayhem"
    /\ current = <<"handle", m>>
    /\ hmPc[m] = "await"
    /\ hmPc' = [hmPc EXCEPT ![m] = IF outer[m] = "result" THEN "done" ELSE "failed"]
    /\ current' = NoHandle
    /\ UNCHANGED <<program, capVars, mainPc, ready, sleeping, queueVars, pubVars,
                   consVars, histVars, gatherVars, hmCount, savePc, restartPc,
                   cleanups, fieldVars>>

\* A failing persist collaborator: save raises after its wait instead of
\* setting msg.saved; the task is done with an exception.
SaveRaises(m) ==
    /\ program = "mayhem"
    /\ current = <<"save", m>>
    /\ savePc[m] = "sleep"
    /\ savePc' = [savePc EXCEPT ![m] = "failed"]
    /\ ready' = CallSoon(ready, <<"gather_save", m>>)
    /\ current' = NoHandle
    /\ UNCHANGED <<program, capVars, mainPc, sleeping, queueVars, pubVars, consVars,
                   histVars, gatherVars, hmPc, hmCount, restartPc, cleanups,
                   fieldVars>>

\* A failing restart collaborator: restart_host raises after its wait.
RestartRaises(m) ==
    /\ program = "mayhem"
    /\ current = <<"restart", m>>
    /\ restartPc[m] = "sleep"
    /\ restartPc' = [restartPc EXCEPT ![m] = "failed"]
    /\ ready' = CallSoon(ready, <<"gather_restart", m>>)
    /\ current' = NoHandle
    /\ UNCHANGED <<program, capVars, mainPc, sleeping, queueVars, pubVars, consVars,
                   histVars, gatherVars, hmPc, hmCount, savePc, cleanups,
                   fieldVars>>

(***************************************************************************)
(* mayhem_4.py                                                             *)
(***************************************************************************)

\* A publish whose `await queue.put(None)` is indented into the loop.
Publish4PutSentinelInLoop ==
    /\ program = "mayhem_4"
    /\ current = PublishHandle
    /\ pubPc = "run"
    /\ x <= n
    /\ queue' = QueuePut(QueuePut(queue, x), None)
    /\ enqueued' = Append(Append(enqueued, x), None)
    /\ ready' = WakeGetterReady(ready, getters)
    /\ getters' = WakeGetterRest(getters)
    /\ x' = x + 1
    /\ UNCHANGED <<program, capVars, mainPc, current, sleeping, n, nextId, pubPc,
                   consVars, consumed, gatherVars, taskVars, cleanups,
                   fieldVars>>

\* publish(queue, n), one iteration of `for x in range(1, n + 1)`:
\* `await queue.put(msg)` on the unbounded queue returns without
\* suspending, so publish stays the running coroutine.
Publish4Put ==
    /\ program = "mayhem_4"
    /\ current = PublishHandle
    /\ pubPc = "run"
    /\ x <= n
    /\ ~QueueFull(queue, maxsize)
    /\ queue' = QueuePut(queue, x)
    /\ enqueued' = Append(enqueued, x)
    /\ ready' = WakeGetterReady(ready, getters)
    /\ getters' = WakeGetterRest(getters)
    /\ x' = x + 1
    /\ UNCHANGED <<program, capVars, mainPc, current, sleeping, n, nextId, pubPc,
                   consVars, consumed, gatherVars, taskVars, cleanups,
                   fieldVars>>

\* A publish that returns without putting the sentinel.
Publish4NoSentinel ==
    /\ program = "mayhem_4"
    /\ current = PublishHandle
    /\ pubPc = "run"
    /\ x > n
    /\ pubPc' = "done"
    /\ current' = NoHandle
    /\ UNCHANGED <<program, capVars, mainPc, ready, sleeping, queueVars, n, x, nextId,
                   consVars, histVars, gatherVars, taskVars, cleanups,
                   fieldVars>>

\* publish(queue, n) after the loop: `await queue.put(None)`, and the
\* coroutine returns.
Publish4Sentinel ==
    /\ program = "mayhem_4"
    /\ current = PublishHandle
    /\ pubPc = "run"
    /\ x > n
    /\ ~QueueFull(queue, maxsize)
    /\ queue' = QueuePut(queue, None)
    /\ enqueued' = Append(enqueued, None)
    /\ ready' = WakeGetterReady(ready, getters)
    /\ getters' = WakeGetterRest(getters)
    /\ pubPc' = "done"
    /\ current' = NoHandle
    /\ UNCHANGED <<program, capVars, mainPc, sleeping, n, x, nextId, consVars,
                   consumed, gatherVars, taskVars, cleanups, fieldVars>>

\* consume, get returns a message: it is logged 'Consumed' and the loop
\* sleeps (the simulated i/o) before its next get.
Consume4Message(c) ==
    /\ program = "mayhem_4"
    /\ current = <<"consume", c>>
    /\ queue # <<>>
    /\ QueueHead(queue) # None
    /\ queue' = QueueRest(queue)
    /\ msg' = [msg EXCEPT ![c] = QueueHead(queue)]
    /\ consumed' = Append(consumed, QueueHead(queue))
    /\ consPc' = [consPc EXCEPT ![c] = "sleep"]
    /\ sleeping' = sleeping \cup {<<"consume", c>>}
    /\ ready' = WakePutterReady(ready, putters)
    /\ putters' = WakePutterRest(putters)
    /\ current' = NoHandle
    /\ UNCHANGED <<program, maxsize, mainPc, getters, pubVars, enqueued,
                   gatherVars, taskVars, cleanups, fieldVars>>

\* A consume that puts the sentinel back for the other consumers before it
\* stops.
Consume4StopRequeues(c) ==
    /\ program = "mayhem_4"
    /\ current = <<"consume", c>>
    /\ queue # <<>>
    /\ QueueHead(queue) = None
    /\ queue' = QueuePut(QueueRest(queue), None)
    /\ enqueued' = Append(enqueued, None)
    /\ msg' = [msg EXCEPT ![c] = None]
    /\ consPc' = [consPc EXCEPT ![c] = "stopped"]
    /\ ready' = WakeGetterReady(ready, getters)
    /\ getters' = WakeGetterRest(getters)
    /\ current' = NoHandle
    /\ UNCHANGED <<program, capVars, mainPc, sleeping, pubVars, consumed,
                   gatherVars, taskVars, cleanups, fieldVars>>

\* A consume that logs 'Consumed' before it tests for the sentinel.
Consume4StopLogged(c) ==
    /\ program = "mayhem_4"
    /\ current = <<"consume", c>>
    /\ queue # <<>>
    /\ QueueHead(queue) = None
    /\ queue' = QueueRest(queue)
    /\ msg' = [msg EXCEPT ![c] = None]
    /\ consumed' = Append(consumed, None)
    /\ consPc' = [consPc EXCEPT ![c] = "stopped"]
    /\ ready' = WakePutterReady(ready, putters)
    /\ putters' = WakePutterRest(putters)
    /\ current' = NoHandle
    /\ UNCHANGED <<program, maxsize, mainPc, sleeping, getters, pubVars,
                   enqueued, gatherVars, taskVars, cleanups, fieldVars>>

\* consume, get returns None: `break`, the coroutine returns.
Consume4Stop(c) ==
    /\ program = "mayhem_4"
    /\ current = <<"consume", c>>
    /\ queue # <<>>
    /\ QueueHead(queue) = None
    /\ queue' = QueueRest(queue)
    /\ msg' = [msg EXCEPT ![c] = None]
    /\ consPc' = [consPc EXCEPT ![c] = "stopped"]
    /\ ready' = WakePutterReady(ready, putters)
    /\ putters' = WakePutterRest(putters)
    /\ current' = NoHandle
    /\ UNCHANGED <<program, maxsize, mainPc, sleeping, getters, pubVars,
                   histVars, gatherVars, taskVars, cleanups, fieldVars>>

(***************************************************************************)
(* mayhem_1.py: one thread, publish(line, n) then consume(line).           *)
(***************************************************************************)

\* A publish that counts down: message_id n first, 1 last.
Publish1PutDescending ==
    /\ program = "mayhem_1"
    /\ mainPc = "publish"
    /\ x <= n
    /\ queue' = QueuePut(queue, n + 1 - x)
    /\ enqueued' = Append(enqueued, n + 1 - x)
    /\ x' = x + 1
    /\ UNCHANGED <<program, capVars, mainPc, loopVars, getters, n, nextId,
                   pubPc, consVars, consumed, gatherVars, taskVars, cleanups,
                   fieldVars>>

\* publish, one iteration of the for loop: queue.put(msg).
Publish1Put ==
    /\ program = "mayhem_1"
    /\ mainPc = "publish"
    /\ x <= n
    /\ queue' = QueuePut(queue, x)
    /\ enqueued' = Append(enqueued, x)
    /\ x' = x + 1
    /\ UNCHANGED <<program, capVars, mainPc, loopVars, getters, n, nextId, pubPc,
                   consVars, consumed, gatherVars, taskVars, cleanups,
                   fieldVars>>

\* publish after the loop: queue.put(None); publish returns and main calls
\* consume.
Publish1Sentinel ==
    /\ program = "mayhem_1"
    /\ mainPc = "publish"
    /\ x > n
    /\ queue' = QueuePut(queue, None)
    /\ enqueued' = Append(enqueued, None)
    /\ pubPc' = "done"
    /\ mainPc' = "consume"
    /\ UNCHANGED <<program, capVars, loopVars, getters, n, x, nextId, consVars,
                   consumed, gatherVars, taskVars, cleanups, fieldVars>>

\* consume, queue.get() returns a message: it is logged 'Consumed' and the
\* thread sleeps.  (On an empty queue the blocking get never returns.)
Consume1Message ==
    /\ program = "mayhem_1"
    /\ mainPc = "consume"
    /\ consPc[1] = "get"
    /\ queue # <<>>
    /\ QueueHead(queue) # None
    /\ queue' = QueueRest(queue)
    /\ msg' = [msg EXCEPT ![1] = QueueHead(queue)]
    /\ consumed' = Append(consumed, QueueHead(queue))
    /\ consPc' = [consPc EXCEPT ![1] = "sleep"]
    /\ UNCHANGED <<program, capVars, mainPc, loopVars, getters, pubVars, enqueued,
                   gatherVars, taskVars, cleanups, fieldVars>>

\* consume, time.sleep returns: back to the get.
Consume1Sleep ==
    /\ program = "mayhem_1"
    /\ mainPc = "consume"
    /\ consPc[1] = "sleep"
    /\ consPc' = [consPc EXCEPT ![1] = "get"]
    /\ UNCHANGED <<program, capVars, mainPc, loopVars, queueVars, pubVars, msg,
                   histVars, gatherVars, taskVars, cleanups, fieldVars>>

\* consume, queue.get() returns None: `break`, consume returns to main.
Consume1Stop ==
    /\ program = "mayhem_1"
    /\ mainPc = "consume"
    /\ consPc[1] = "get"
    /\ queue # <<>>
    /\ QueueHead(queue) = None
    /\ queue' = QueueRest(queue)
    /\ msg' = [msg EXCEPT ![1] = None]
    /\ consPc' = [consPc EXCEPT ![1] = "stopped"]
    /\ mainPc' = "finish"
    /\ UNCHANGED <<program, capVars, loopVars, getters, pubVars, histVars,
                   gatherVars, taskVars, cleanups, fieldVars>>

\* main after consume: the duration is computed and the shutdown line is
\* logged.
Main1Shutdown ==
    /\ program = "mayhem_1"
    /\ mainPc = "finish"
    /\ mainPc' = "shutdown"
    /\ UNCHANGED <<program, capVars, loopVars, queueVars, pubVars, consVars, histVars,
                   gatherVars, taskVars, cleanups, fieldVars>>

(***************************************************************************)
(* main() of mayhem.py (and of mayhem_4.py) around loop.run_forever().     *)
(***************************************************************************)

\* The stop signal: KeyboardInterrupt is raised out of loop.run_forever()
\* and caught by main's except clause.  A callback that was running is
\* aborted; the loop runs nothing from here on.
Interrupt ==
    /\ program \in {"mayhem", "mayhem_4"}
    /\ mainPc = "run_forever"
    /\ mainPc' = "except"
    /\ current' = NoHandle
    /\ UNCHANGED <<program, capVars, ready, sleeping, queueVars, pubVars, consVars,
                   histVars, gatherVars, taskVars, cleanups, fieldVars>>

\* A main whose except clause does not match KeyboardInterrupt: the
\* interrupt leaves main after the finally block.
MainExceptMisses ==
    /\ mainPc = "except"
    /\ mainPc' = "finally_raising"
    /\ UNCHANGED <<program, capVars, loopVars, queueVars, pubVars, consVars, histVars,
                   gatherVars, taskVars, cleanups, fieldVars>>

\* except KeyboardInterrupt: logging.info("Process interrupted").
MainExcept ==
    /\ mainPc = "except"
    /\ mainPc' = "finally"
    /\ UNCHANGED <<program, capVars, loopVars, queueVars, pubVars, consVars, histVars,
                   gatherVars, taskVars, cleanups, fieldVars>>

\* finally: loop.close() drops every handle and timer the loop still
\* holds, without running them; then the shutdown line is logged and main
\* returns.
MainFinally ==
    /\ mainPc = "finally"
    /\ ready' = <<>>
    /\ sleeping' = {}
    /\ mainPc' = "shutdown"
    /\ UNCHANGED <<program, capVars, current, queueVars, pubVars, consVars, histVars,
                   gatherVars, taskVars, cleanups, fieldVars>>

(***************************************************************************)
(* Specifications.                                                         *)
(***************************************************************************)

\* Every handle that can be parked on a timer.
Sleepers ==
    {PublishHandle} \cup ({"save", "restart"} \X Msgs) \cup ({"consume"} \X Consumers)

LoopSteps ==
    \/ RunNext
    \/ \E h \in Sleepers : TimerFires(h)
    \/ \E c \in Consumers : ConsumeWait(c)

MayhemSteps ==
    \/ Publish
    \/ \E m \in Msgs : Put(m)
    \/ \E c \in Consumers : ConsumeGet(c)
    \/ \E m \in Msgs : HandleStart(m)
    \/ \E m \in Msgs : SaveStart(m)
    \/ \E m \in Msgs : SaveFinish(m)
    \/ \E m \in Msgs : RestartStart(m)
    \/ \E m \in Msgs : RestartFinish(m)
    \/ \E m \in Msgs : GatherSaveDone(m)
    \/ \E m \in Msgs : GatherRestartDone(m)
    \/ \E m \in Msgs : Cleanup(m)
    \/ \E m \in Msgs : HandleResume(m)

FailSteps ==
    \/ \E m \in Msgs : SaveRaises(m)
    \/ \E m \in Msgs : RestartRaises(m)
(***************************************************************************)
(* Queue.put() on a queue that has a capacity (asyncio.Queue(maxsize=K)).  *)
(***************************************************************************)

\* `while self.full(): putter = ...; self._putters.append(putter);
\* await putter`: the caller of put (the put task of mayhem.py, publish
\* itself in mayhem_4.py) is suspended until a get resumes it, and then
\* tests full() again.
PutWait ==
    /\ \/ program = "mayhem" /\ current[1] = "put"
       \/ program = "mayhem_4" /\ current = PublishHandle /\ pubPc = "run"
    /\ QueueFull(queue, maxsize)
    /\ putters' = Append(putters, current)
    /\ current' = NoHandle
    /\ UNCHANGED <<program, maxsize, mainPc, ready, sleeping, queueVars,
                   pubVars, consVars, histVars, gatherVars, taskVars,
                   cleanups, fieldVars>>

Mayhem4Steps ==
    \/ Publish4Put
    \/ Publish4Sentinel
    \/ \E c \in Consumers : Consume4Message(c)
    \/ \E c \in Consumers : Consume4Stop(c)

Mayhem1Steps ==
    \/ Publish1Put
    \/ Publish1Sentinel
    \/ Consume1Message
    \/ Consume1Sleep
    \/ Consume1Stop
    \/ Main1Shutdown

\* The three programs as their main() starts them: one producer, one
\* consumer loop, sub-operations that do not fail.
Init == InitMayhem(1) \/ InitMayhem4(1) \/ InitMayhem1

\* The steps of the programs other than the expiry of a timer.
ProgramSteps ==
    \/ RunNext
    \/ \E c \in Consumers : ConsumeWait(c)
    \/ MayhemSteps
    \/ Mayhem4Steps
    \/ Mayhem1Steps

Next == LoopSteps \/ MayhemSteps \/ Mayhem4Steps \/ Mayhem1Steps

Spec == Init /\ [][Next]_vars

\* The scheduling the programs run under: the event loop (the thread, in
\* mayhem_1.py) runs whatever is runnable, and every timer expires.
Fairness ==
    /\ WF_vars(ProgramSteps)
    /\ \A h \in Sleepers : WF_vars(TimerFires(h))

FairSpec == Spec /\ Fairness

\* mayhem.py with sub-operations that may fail.
NextFail == LoopSteps \/ MayhemSteps \/ FailSteps

SpecFail == InitMayhem(1) /\ [][NextFail]_vars

FairSpecFail ==
    /\ SpecFail
    /\ WF_vars(RunNext \/ (\E c \in Consumers : ConsumeWait(c)) \/ MayhemSteps \/ FailSteps)
    /\ \A h \in Sleepers : WF_vars(TimerFires(h))

\* mayhem.py with the stop signal, which may arrive in any state.
MainSteps == MainExcept \/ MainFinally

NextStop == LoopSteps \/ MayhemSteps \/ Interrupt \/ MainSteps

SpecStop == InitMayhem(1) /\ [][NextStop]_vars

\* The loop runs what is runnable, every timer expires and main goes on
\* after the interrupt; nothing makes the interrupt arrive.
FairSpecStop ==
    /\ SpecStop
    /\ WF_vars(RunNext \/ (\E c \in Consumers : ConsumeWait(c)) \/ MayhemSteps)
    /\ \A h \in Sleepers : WF_vars(TimerFires(h))
    /\ WF_vars(MainSteps)

\* mayhem_4.py with several consume tasks on the queue of the one publish.
InitMulti4 == \E k \in 2..MaxConsumers : InitMayhem4(k)

NextMulti4 == LoopSteps \/ Mayhem4Steps

SpecMulti4 == InitMulti4 /\ [][NextMulti4]_vars

FairSpecMulti4 ==
    /\ SpecMulti4
    /\ WF_vars(RunNext \/ (\E c \in Consumers : ConsumeWait(c)) \/ Mayhem4Steps)
    /\ \A h \in Sleepers : WF_vars(TimerFires(h))

\* mayhem.py and mayhem_4.py on a queue of capacity 1..MaxCap.
InitCap ==
    \E k \in 1..MaxCap : (StartMayhem(1) \/ StartMayhem4(1)) /\ maxsize = k

NextCap == LoopSteps \/ MayhemSteps \/ Mayhem4Steps \/ PutWait

SpecCap == InitCap /\ [][NextCap]_vars

\* mayhem.py with several consumer loops on the one queue.
InitMulti == \E k \in 2..MaxConsumers : InitMayhem(k)

NextMulti == LoopSteps \/ MayhemSteps

SpecMulti == InitMulti /\ [][NextMulti]_vars


(***************************************************************************)
(* Claims.                                                                 *)
(***************************************************************************)

\* A handle is runnable: it is being executed or waits in the loop's FIFO.
Runnable(h) == current = h \/ h \in Range(ready)

\* C1: in every reachable state of mayhem.py, a message that is acked is
\* restarted and saved: cleanup never sets acked before both restart_host
\* and save have completed.
C1_AckedAfterBoth ==
    \A m \in Msgs : acked[m] => restarted[m] /\ saved[m]

\* A message has been acked (cleanup has run for it) after both
\* sub-operations.
C1_Witness ==
    \E m \in Msgs : acked[m] /\ restarted[m] /\ saved[m] /\ cleanups[m] = 1

\* C2: cleanup runs exactly once per dispatched message: never twice, never
\* before both sub-operations are done, it has run once the handler has
\* returned, and while it has not yet run after both sub-operations it is
\* on its way (a callback of gather or cleanup itself is runnable).
C2_CleanupExactlyOnce ==
    \A m \in Msgs :
        /\ cleanups[m] <= 1
        /\ cleanups[m] = 1 => savePc[m] = "done" /\ restartPc[m] = "done"
        /\ hmPc[m] = "done" => cleanups[m] = 1
        /\ (savePc[m] = "done" /\ restartPc[m] = "done" /\ cleanups[m] = 0) =>
              \/ Runnable(<<"gather_save", m>>)
              \/ Runnable(<<"gather_restart", m>>)
              \/ Runnable(<<"cleanup", m>>)

\* Two handlers have returned after one cleanup each, one whose save
\* finished first and one whose restart_host finished first.
C2_Witness ==
    \E m1, m2 \in Msgs :
        /\ hmPc[m1] = "done" /\ cleanups[m1] = 1 /\ firstDone[m1] = "save"
        /\ hmPc[m2] = "done" /\ cleanups[m2] = 1 /\ firstDone[m2] = "restart"

\* C3 (as claimed): a message whose save failed is never acked.
C3_FailedSaveNeverAcked ==
    \A m \in Msgs : savePc[m] = "failed" => ~acked[m]

\* C4: the failure of one message's handler leaves the consumer loop and
\* the other handlers alone: every message put on the queue is eventually
\* dequeued, and every dispatched message none of whose sub-operations
\* fails eventually is restarted, saved and acked, its handler returned.
C4_FailureIsolated ==
    \A m \in Msgs :
        /\ [](m \in Range(enqueued) => <>(m \in Range(consumed)))
        /\ [](hmPc[m] # "none" =>
                <>(\/ savePc[m] = "failed"
                   \/ restartPc[m] = "failed"
                   \/ (restarted[m] /\ saved[m] /\ acked[m] /\ hmPc[m] = "done")))

\* The handler of message 1 has failed and message 2 has been dequeued,
\* restarted, saved and acked.
C4_Witness ==
    /\ MaxMsgs >= 2
    /\ hmPc[1] = "failed"
    /\ 2 \in Range(consumed)
    /\ hmPc[2] = "done" /\ restarted[2] /\ saved[2] /\ acked[2]

\* The messages generated so far, in generation order: mayhem.py numbers
\* them 1, 2, ... here (their uuid in the source), publish(queue, n)
\* generates 1..n.
Generated == Iota(IF program = "mayhem" THEN nextId ELSE x - 1)

\* C5: with one producer and one consumer the messages dequeued are, in
\* order, a prefix of the messages generated (FIFO), in mayhem.py too,
\* where each put runs in a task of its own.
C5_Fifo ==
    IsPrefix(consumed, Generated)

\* mayhem.py has dequeued two messages, each put by its own task.
C5_Witness ==
    /\ program = "mayhem"
    /\ Len(consumed) >= 2
    /\ Len(enqueued) >= 2

Bounded == program \in {"mayhem_4", "mayhem_1"}

\* C6: publish(queue, n) enqueues 1..n in increasing order and then the
\* sentinel once, and nothing after it.
C6_PublishBounded ==
    Bounded =>
        /\ IsPrefix(enqueued, Iota(n) \o <<None>>)
        /\ pubPc = "done" => enqueued = Iota(n) \o <<None>>

\* publish(queue, n) of mayhem_4.py has returned, for an n of two or more.
C6_Witness ==
    /\ program = "mayhem_4"
    /\ n >= 2
    /\ pubPc = "done"

\* C7: in bounded mode, under fair scheduling, the consumer loop
\* eventually stops, and when it has stopped it has consumed exactly 1..n,
\* in order, and the queue is empty.
C7_ConsumerStops ==
    /\ <>(Bounded => consPc[1] = "stopped")
    /\ [](Bounded /\ consPc[1] = "stopped" => consumed = Iota(n) /\ queue = <<>>)

\* The consumer loop of mayhem_4.py has stopped after two or more messages.
C7_Witness ==
    /\ program = "mayhem_4"
    /\ n >= 2
    /\ consPc[1] = "stopped"
    /\ consumed = Iota(n)

\* C8: the consume loop of mayhem.py never waits for a handler: whenever
\* the queue holds a message the loop is runnable (running, or in the
\* loop's FIFO), whatever handlers are in flight.
C8_ConsumerNeverThrottled ==
    (program = "mayhem" /\ queue # <<>>) =>
        \A c \in DOMAIN consPc : Runnable(<<"consume", c>>)

\* Two handlers are in flight at once.
C8_Witness ==
    \E m1, m2 \in Msgs : m1 # m2 /\ hmPc[m1] = "await" /\ hmPc[m2] = "await"

\* The number of times m was dequeued.
TimesConsumed(m) == Cardinality({i \in 1..Len(consumed) : consumed[i] = m})

\* C9: with several consumer loops on the queue, each message is dequeued
\* at most once and handed to at most one handle_message task.
C9_OneHandlerPerMessage ==
    \A m \in Msgs : TimesConsumed(m) <= 1 /\ hmCount[m] <= 1

\* Two consumer loops have each dequeued a message of their own.
C9_Witness ==
    /\ DOMAIN consPc = 1..2
    /\ msg[1] # None /\ msg[2] # None /\ msg[1] # msg[2]
    /\ hmCount[msg[1]] = 1 /\ hmCount[msg[2]] = 1

\* C10 (as claimed): in bounded mode, once the producer has put the
\* sentinel and the consumer loop has stopped, main has reached its
\* shutdown step or can take a step towards it without a stop signal.
C10_CompletesNaturally ==
    (Bounded /\ pubPc = "done" /\ consPc[1] = "stopped") =>
        (mainPc = "shutdown" \/ ENABLED Next)

\* The handler of m is in flight: created and not finished.
InFlight(m) == hmPc[m] \in {"start", "await"}

\* C11: whenever the stop signal arrives, with any number of handlers in
\* flight, main logs the interruption notice, then closes the loop and
\* logs the shutdown line, and returns: it passes through its except
\* clause and its finally block in that order and reaches no other state.
C11_InterruptShutsDown ==
    /\ [](mainPc \in {"run_forever", "except", "finally", "shutdown"})
    /\ [][mainPc' # mainPc =>
            \/ mainPc = "run_forever" /\ mainPc' = "except"
            \/ mainPc = "except" /\ mainPc' = "finally"
            \/ mainPc = "finally" /\ mainPc' = "shutdown"]_vars
    /\ [](mainPc = "except" => <>(mainPc = "shutdown"))

\* main has shut down while two handlers were in flight.
C11_Witness ==
    /\ mainPc = "shutdown"
    /\ \E m1, m2 \in Msgs : m1 # m2 /\ InFlight(m1) /\ InFlight(m2)

\* C12 (as claimed): when main reports shutdown every message the
\* consumer dequeued has been acked, and none was handled twice.
C12_ShutdownDrains ==
    mainPc = "shutdown" =>
        \A m \in Msgs : m \in Range(consumed) => acked[m] /\ hmCount[m] = 1

C14_FieldsMonotone ==
    [][\A m \in Msgs :
          /\ restarted[m] => restarted'[m]
          /\ saved[m] => saved'[m]
          /\ acked[m] => acked'[m]]_vars

\* One message has all its fields set while a later one is half way.
C14_Witness ==
    \E m1, m2 \in Msgs :
        /\ restarted[m1] /\ saved[m1] /\ acked[m1]
        /\ restarted[m2] /\ ~saved[m2] /\ ~acked[m2]

\* The number of acknowledged messages.
AckedCount == Cardinality({m \in Msgs : acked[m]})

\* C15: in mayhem.py (the unbounded mode) the number of acknowledged
\* messages is at most the number of dequeued messages, which is at most the
\* number of enqueued messages, and the acknowledged count never decreases
\* from one state to the next.
C15_Counts ==
    /\ [](program = "mayhem" =>
            /\ AckedCount <= Len(consumed)
            /\ Len(consumed) <= Len(enqueued))
    /\ [][AckedCount' >= AckedCount]_vars

\* The three counts differ: one message acknowledged, a second dequeued and
\* in its handler.
C15_Witness ==
    /\ program = "mayhem"
    /\ AckedCount = 1
    /\ Len(consumed) = 2
    /\ Len(enqueued) = 2

\* The items dequeued so far: what was enqueued and is no longer queued.
Dequeued == SubSeq(enqueued, 1, Len(enqueued) - Len(queue))

NotSentinel(item) == item # None

\* C16: in mayhem_4.py and mayhem_1.py the sentinel is never processed: it
\* never appears among the items logged 'Consumed', the step that dequeues
\* it stops the consumer and logs nothing, starts no handler and no sleep;
\* and every other dequeued item is logged 'Consumed', in dequeue order.
C16_SentinelNotWork ==
    /\ [](Bounded =>
            /\ None \notin Range(consumed)
            /\ consumed = SelectSeq(Dequeued, NotSentinel))
    /\ [][Bounded /\ queue # <<>> /\ QueueHead(queue) = None
                  /\ Len(queue') < Len(queue) =>
            /\ consumed' = consumed
            /\ sleeping' = sleeping
            /\ hmCount' = hmCount
            /\ \E c \in DOMAIN consPc :
                  /\ consPc[c] # "stopped" /\ consPc'[c] = "stopped"
                  /\ \A d \in DOMAIN consPc \ {c} : consPc'[d] = consPc[d]]_vars

\* mayhem_1.py has dequeued the sentinel after two or more messages.
C16_Witness ==
    /\ program = "mayhem_1"
    /\ consPc[1] = "stopped"
    /\ Len(Dequeued) = Len(consumed) + 1
    /\ Len(consumed) >= 2

\* C17: the two sub-operations of a handler complete in either order, and
\* whichever completed first the finished handler leaves its message with
\* restarted = saved = acked = TRUE.
C17_OrderIndependent ==
    \A m \in Msgs :
        hmPc[m] = "done" =>
            /\ firstDone[m] \in {"save", "restart"}
            /\ restarted[m] /\ saved[m] /\ acked[m]

\* Both intermediate states at once: one handler has restarted and not yet
\* saved, the other has saved and not yet restarted.
C17_Witness ==
    \E m1, m2 \in Msgs :
        /\ restarted[m1] /\ ~saved[m1] /\ hmPc[m1] = "await"
        /\ ~restarted[m2] /\ saved[m2] /\ hmPc[m2] = "await"

\* C18: in mayhem.py, with no failing sub-operation and no stop signal,
\* under fair scheduling every message publish has generated is eventually
\* dequeued by consume and eventually acked.
C18_NoMessageLost ==
    \A m \in Msgs :
        [](program = "mayhem" /\ m <= nextId =>
              <>(m \in Range(consumed) /\ acked[m]))

\* Every message publish generates within the bound was dequeued and acked.
C18_Witness ==
    /\ program = "mayhem"
    /\ nextId = MaxMsgs
    /\ \A m \in Msgs : m \in Range(enqueued) /\ m \in Range(consumed) /\ acked[m]

\* The consumer loops that have stopped.
Stopped == {c \in DOMAIN consPc : consPc[c] = "stopped"}

IsSentinel(item) == item = None

\* C19: in mayhem_4.py with two or more consumer loops on the one queue the
\* sentinel is enqueued once only and dequeued by one loop: at most one loop
\* is ever stopped, and from some point on exactly one is stopped, the queue
\* is empty and every other loop is suspended in get, for ever.
C19_OneConsumerStops ==
    /\ [](Cardinality(Stopped) <= 1)
    /\ [](Len(SelectSeq(enqueued, IsSentinel)) <= 1)
    /\ <>[](/\ Cardinality(Stopped) = 1
            /\ queue = <<>>
            /\ \A c \in DOMAIN consPc \ Stopped :
                  /\ c \in Range(getters)
                  /\ ~Runnable(<<"consume", c>>)
                  /\ <<"consume", c>> \notin sleeping)

\* One loop took the sentinel while another was asleep on a message; that
\* one has since come back to an empty queue and is suspended in get.
C19_Witness ==
    /\ program = "mayhem_4"
    /\ Cardinality(DOMAIN consPc) >= 2
    /\ n >= 2
    /\ Len(consumed) = n
    /\ Cardinality(Stopped) = 1
    /\ \A c \in DOMAIN consPc \ Stopped : c \in Range(getters)

\* What an observer of a bounded program sees: the message_ids logged
\* 'Consumed' so far, the queue, and the state of the consumer loop.
Observation == <<consumed, queue, consPc[1]>>

\* The observation a bounded run of k messages ends with.
FinalObservation(k) == <<Iota(k), <<>>, "stopped">>

\* C20: mayhem_1.py and mayhem_4.py are observationally equivalent for every
\* n: in either program the ids logged 'Consumed' are at every moment a
\* prefix of 1..n, and under fair scheduling either program reaches, and
\* stays in, the same final observation: 1..n consumed in order, the queue
\* empty, the consumer stopped.
C20_BoundedVariantsEquivalent ==
    /\ [](Bounded => IsPrefix(consumed, Iota(n)))
    /\ \A k \in 0..MaxN : \A p \in {"mayhem_1", "mayhem_4"} :
          program = p /\ n = k => <>[](Observation = FinalObservation(k))

\* mayhem_1.py has returned from consume with the final observation (the
\* same observation mayhem_4.py ends with).
C20_Witness ==
    /\ program = "mayhem_1"
    /\ mainPc = "shutdown"
    /\ n >= 2
    /\ Observation = FinalObservation(n)

=============================================================================
